---- MODULE Spec2Model ----
(***************************************************************************)
(* Model of the HeaderTooltips plugin                                      *)
(* (src/plugins/headerTooltips/headerTooltips.js).                         *)
(*                                                                         *)
(* The plugin caches its settings, subscribes two header-render hooks and  *)
(* writes the "title" attribute of header cells (TH elements).  The header *)
(* cells live in the THEAD (column headers) and the TBODY (row headers) of *)
(* three tables: the main table, the top overlay clone and the top-left    *)
(* corner overlay clone.                                                   *)
(***************************************************************************)
EXTENDS Integers, Sequences, FiniteSets, TLC

\* ------------------------------------------------------------- bounds

\* The largest number of column header levels (header renderers, TR rows).
MaxLevels == 1
\* The largest number of TH cells in one header row.
MaxCols == 2

\* ---------------------------------------------------- values and inputs

Surfaces == {"main", "top", "corner"}

\* The value of a missing title attribute.
NoTitle == "<none>"
\* Label texts (innerSpan.textContent).
Texts == {"Qty", "2024"}
TitleValues == Texts \cup {NoTitle}

\* A JavaScript property value of a settings object.
PropValues == {"undefined", "false", "true"}

JsNull == [type |-> "null", bool |-> FALSE,
           rows |-> "undefined", columns |-> "undefined", onlyTrimmed |-> "undefined"]
JsUndefined == [type |-> "undefined", bool |-> FALSE,
                rows |-> "undefined", columns |-> "undefined", onlyTrimmed |-> "undefined"]
JsBoolean(b) == [type |-> "boolean", bool |-> b,
                 rows |-> "undefined", columns |-> "undefined", onlyTrimmed |-> "undefined"]
JsObject(r, c, o) == [type |-> "object", bool |-> FALSE,
                      rows |-> r, columns |-> c, onlyTrimmed |-> o]

\* The values the host's headerTooltips setting takes.
StructuredConfigs == {JsObject(r, c, o) : r \in PropValues, c \in PropValues, o \in PropValues}
ConfigValues == {JsUndefined, JsBoolean(FALSE), JsBoolean(TRUE)} \cup StructuredConfigs

\* JavaScript truthiness of a configuration value and of a property.
ToBoolean(v) == \/ v.type = "object"
                \/ v.type = "boolean" /\ v.bool
Truthy(p) == p = "true"

VARIABLES
  settings,              \* this.settings
  enabled,               \* this.enabled (BasePlugin)
  hooks,                 \* the hook subscriptions of the plugin, in order
  destroyed,             \* destroy() has run
  headerLevels,          \* wt.getSetting('columnHeaders').length
  topLeftCornerOverlay,  \* whether wtOverlays.topLeftCornerOverlay exists
  THEAD,                 \* surface -> header rows -> title of each TH
  TBODY,                 \* surface -> title of the row header of each body row
  last                   \* the last operation and its inputs

vars == <<settings, enabled, hooks, destroyed, headerLevels, topLeftCornerOverlay,
          THEAD, TBODY, last>>

\* A header cell (TH element): its table, its section, its row and its place in the row.
NoCell == [surface |-> "none", section |-> "none", row |-> 0, idx |-> 0]
HeadCell(s, i, j) == [surface |-> s, section |-> "THEAD", row |-> i, idx |-> j]
BodyCell(s, i) == [surface |-> s, section |-> "TBODY", row |-> i, idx |-> 1]

\* Measured outer widths: of the label (innerSpan) and of the header cell (TH).
TextWidths == {0, 1, 49, 50, 51, 120}
CellWidths == {0, 200}

\* ------------------------------------------------------ pure functions

\* isEnabled(): the host's headerTooltips setting is truthy.
isEnabled(cfg) == ToBoolean(cfg)

\* A parseSettings() that fills the absent keys of an object from the defaults.
parseSettingsWithDefaults(s) ==
  IF s.type = "boolean" THEN JsObject("true", "true", "false")
  ELSE IF s.type = "object"
       THEN JsObject(IF s.rows = "undefined" THEN "true" ELSE s.rows,
                     IF s.columns = "undefined" THEN "true" ELSE s.columns,
                     IF s.onlyTrimmed = "undefined" THEN "false" ELSE s.onlyTrimmed)
       ELSE s

\* parseSettings(): a boolean becomes the default object, anything else stays.
parseSettings(s) ==
  IF s.type = "boolean" THEN JsObject("true", "true", "false") ELSE s

\* TH.parentNode.parentNode.nodeName === 'THEAD'
isColHeader(TH) == TH.section = "THEAD"

\* The width of the header cell as measured: the line the code comments out.
columnWidthMeasured(thWidth) == thWidth

\* The width the label is compared with: not outerWidth(TH) but the number 50.
columnWidth(thWidth) == 50

\* Reading a property of this.settings raises a TypeError on null and undefined.
SettingsThrow(s) == s.type \in {"null", "undefined"}

\* A condition that takes either dimension for the header's own.
IsApplicableEither(s, isCol) == Truthy(s.columns) \/ Truthy(s.rows)

\* The first condition of onAfterGetHeader: the header's dimension is enabled.
IsApplicable(s, isCol) ==
  \/ isCol /\ Truthy(s.columns)
  \/ ~isCol /\ Truthy(s.rows)

\* The onlyTrimmed branch: whether the label is wide enough.
IsTrimmed(textWidth, thWidth) ==
  textWidth >= columnWidth(thWidth) /\ textWidth # 0

\* A handler that sets a title only where there is none yet.
TitleKeptIfPresent(s, isCol, textWidth, thWidth, text, old) ==
  IF IsApplicable(s, isCol)
  THEN IF Truthy(s.onlyTrimmed)
       THEN IF IsTrimmed(textWidth, thWidth) THEN text ELSE old
       ELSE IF old = NoTitle THEN text ELSE old
  ELSE old

\* The title of TH after onAfterGetHeader, from its title before.
TitleAfterGetHeader(s, isCol, textWidth, thWidth, text, old) ==
  IF IsApplicable(s, isCol)
  THEN IF Truthy(s.onlyTrimmed)
       THEN IF IsTrimmed(textWidth, thWidth) THEN text ELSE old
       ELSE text
  ELSE old

\* element.removeAttribute('title') on the cell j of the row i of a THEAD.
removeAttribute(head, s, i, j) == [head EXCEPT ![s][i][j] = NoTitle]

\* The inner rangeEach of clearTitleAttributes: the cells of the main row i, and
\* the cells at the same place of the overlay rows where they exist.
RECURSIVE ClearCells(_, _, _, _)
ClearCells(head, corner, i, j) ==
  IF j > Len(head["main"][i]) THEN head
  ELSE LET h1 == removeAttribute(head, "main", i, j)
           h2 == IF i <= Len(h1["top"]) /\ j <= Len(h1["top"][i])
                 THEN removeAttribute(h1, "top", i, j) ELSE h1
           h3 == IF corner /\ i <= Len(h2["corner"]) /\ j <= Len(h2["corner"][i])
                 THEN removeAttribute(h2, "corner", i, j) ELSE h2
       IN ClearCells(h3, corner, i, j + 1)

\* The outer rangeEach: one pass per header level.  A level the main THEAD does
\* not hold makes masterLevel undefined, and masterLevel.childNodes raises.
RECURSIVE ClearLevels(_, _, _, _)
ClearLevels(head, corner, levels, i) ==
  IF i > levels THEN [head |-> head, threw |-> FALSE]
  ELSE IF i > Len(head["main"]) THEN [head |-> head, threw |-> TRUE]
  ELSE ClearLevels(ClearCells(head, corner, i, 1), corner, levels, i + 1)

clearTitleAttributes(head, corner, levels) == ClearLevels(head, corner, levels, 1)

\* ------------------------------------------------------------- layout

HeadCells == {HeadCell(s, i, j) : s \in Surfaces, i \in 1..MaxLevels, j \in 1..MaxCols}
BodyCells == {BodyCell(s, 1) : s \in Surfaces}
AllCells == HeadCells \cup BodyCells

\* The cell exists in the rendered tables.
Exists(TH) ==
  IF TH.section = "THEAD"
  THEN TH.row <= Len(THEAD[TH.surface]) /\ TH.idx <= Len(THEAD[TH.surface][TH.row])
  ELSE TH.row <= Len(TBODY[TH.surface])

\* TH.getAttribute('title'), in given tables and in the current ones.
TitleIn(head, body, TH) ==
  IF TH.section = "THEAD" THEN head[TH.surface][TH.row][TH.idx]
  ELSE body[TH.surface][TH.row]
Title(TH) == TitleIn(THEAD, TBODY, TH)

\* TH.setAttribute('title', t), on the THEAD and on the TBODY.
HeadAfterSet(TH, t) ==
  IF TH.section = "THEAD"
  THEN [THEAD EXCEPT ![TH.surface][TH.row][TH.idx] = t] ELSE THEAD
BodyAfterSet(TH, t) ==
  IF TH.section = "TBODY"
  THEN [TBODY EXCEPT ![TH.surface][TH.row] = t] ELSE TBODY

\* ------------------------------------------------------ state machine

\* The record of an operation: its name, whether it raised, whether the plugin
\* was enabled before it, and of its inputs the header cell, the label width and
\* the label text (a render) or the type of the host's setting (an enable).
Op(op, threw) == [op |-> op, threw |-> threw, wasEnabled |-> FALSE, TH |-> NoCell,
                  textWidth |-> 0, text |-> NoTitle, cfgType |-> "none"]

\* After construction: no settings, not enabled, no subscription.
NewPlugin ==
  /\ settings = JsNull
  /\ enabled = FALSE
  /\ hooks = <<>>
  /\ destroyed = FALSE
  /\ last = Op("new", FALSE)

\* The row headers: the main table has one, in its TBODY.
RowHeaders == [s \in Surfaces |-> IF s = "main" THEN <<NoTitle>> ELSE <<>>]

\* The tables the host has rendered: the main table and the top overlay clone
\* hold the same r header rows of one cell, there is no corner overlay, and the
\* main table has one row header.  The configured number of header levels is r,
\* or r + 1 when a level was configured after the last render.  No header cell
\* has a title.
Init ==
  /\ NewPlugin
  /\ topLeftCornerOverlay = FALSE
  /\ \E r \in 0..MaxLevels :
       /\ headerLevels \in {r, r + 1} \cap 0..MaxLevels
       /\ THEAD = [s \in Surfaces |->
                     IF s = "corner" THEN <<>> ELSE [i \in 1..r |-> <<NoTitle>>]]
  /\ TBODY = RowHeaders

\* BasePlugin.addHook: one more subscription.
addHook(hs, name) == Append(hs, name)

\* BasePlugin.clearHooks: every subscription of the plugin is released.
clearHooks(hs) == <<>>

\* An enablePlugin() without the early return of an enabled plugin.
EnablePluginAgain(cfg) ==
  /\ ~destroyed
  /\ settings' = parseSettings(cfg)
  /\ hooks' = addHook(addHook(hooks, "afterGetColHeader"), "afterGetRowHeader")
  /\ enabled' = TRUE
  /\ last' = [Op("enable", FALSE) EXCEPT !.cfgType = cfg.type, !.wasEnabled = enabled]
  /\ UNCHANGED <<destroyed, headerLevels, topLeftCornerOverlay, THEAD, TBODY>>

\* enablePlugin(), the host's setting being cfg.
EnablePlugin(cfg) ==
  /\ ~destroyed
  /\ IF enabled
     THEN UNCHANGED <<settings, hooks, enabled>>
     ELSE /\ settings' = parseSettings(cfg)
          /\ hooks' = addHook(addHook(hooks, "afterGetColHeader"), "afterGetRowHeader")
          /\ enabled' = TRUE
  /\ last' = [Op("enable", FALSE) EXCEPT !.cfgType = cfg.type, !.wasEnabled = enabled]
  /\ UNCHANGED <<destroyed, headerLevels, topLeftCornerOverlay, THEAD, TBODY>>

\* disablePlugin(): the settings are dropped first; when the cleanup raises,
\* super.disablePlugin() is not reached.
DisablePlugin ==
  /\ ~destroyed
  /\ LET r == clearTitleAttributes(THEAD, topLeftCornerOverlay, headerLevels)
     IN /\ settings' = JsNull
        /\ THEAD' = r.head
        /\ IF r.threw
           THEN UNCHANGED <<hooks, enabled>>
           ELSE hooks' = clearHooks(hooks) /\ enabled' = FALSE
        /\ last' = [Op("disable", r.threw) EXCEPT !.wasEnabled = enabled]
  /\ UNCHANGED <<destroyed, headerLevels, topLeftCornerOverlay, TBODY>>

\* A destroy() that runs the cleanup traversal as disablePlugin() does.
DestroyWithCleanup ==
  /\ ~destroyed
  /\ settings' = JsNull
  /\ THEAD' = clearTitleAttributes(THEAD, topLeftCornerOverlay, headerLevels).head
  /\ hooks' = clearHooks(hooks)
  /\ enabled' = FALSE
  /\ destroyed' = TRUE
  /\ last' = [Op("destroy", FALSE) EXCEPT !.wasEnabled = enabled]
  /\ UNCHANGED <<headerLevels, topLeftCornerOverlay, TBODY>>

\* destroy(): the settings are dropped and the base class releases the hooks.
Destroy ==
  /\ ~destroyed
  /\ settings' = JsNull
  /\ hooks' = clearHooks(hooks)
  /\ enabled' = FALSE
  /\ destroyed' = TRUE
  /\ last' = [Op("destroy", FALSE) EXCEPT !.wasEnabled = enabled]
  /\ UNCHANGED <<headerLevels, topLeftCornerOverlay, THEAD, TBODY>>

\* The number of subscriptions of the plugin to a hook.
Subscriptions(name) == Cardinality({k \in 1..Len(hooks) : hooks[k] = name})

\* onAfterGetHeader(index, TH), run by the subscription of the plugin to the hook.
onAfterGetHeader(name, TH, textWidth, thWidth, text) ==
  /\ ~destroyed
  /\ Exists(TH)
  /\ Subscriptions(name) >= 1
  /\ LET threw == SettingsThrow(settings)
         t == IF threw THEN Title(TH)
              ELSE TitleAfterGetHeader(settings, isColHeader(TH), textWidth, thWidth,
                                       text, Title(TH))
     IN /\ THEAD' = HeadAfterSet(TH, t)
        /\ TBODY' = BodyAfterSet(TH, t)
        /\ last' = [Op("render", threw) EXCEPT !.wasEnabled = enabled, !.TH = TH,
                        !.textWidth = textWidth, !.text = text]
  /\ UNCHANGED <<settings, enabled, hooks, destroyed, headerLevels, topLeftCornerOverlay>>

\* The host, before an enable attempt, asks isEnabled().
HostEnable == \E cfg \in ConfigValues : isEnabled(cfg) /\ EnablePlugin(cfg)

\* enablePlugin() called on the plugin instance, whatever the setting.
DirectEnable == \E cfg \in ConfigValues : EnablePlugin(cfg)

\* The host renders a column header and runs afterGetColHeader.
AfterGetColHeader ==
  \E TH \in HeadCells, w \in TextWidths, thw \in CellWidths, text \in Texts :
    onAfterGetHeader("afterGetColHeader", TH, w, thw, text)

\* The host renders a row header and runs afterGetRowHeader.
AfterGetRowHeader ==
  \E TH \in BodyCells, w \in TextWidths, thw \in CellWidths, text \in Texts :
    onAfterGetHeader("afterGetRowHeader", TH, w, thw, text)

Next ==
  \/ HostEnable
  \/ DisablePlugin
  \/ Destroy
  \/ AfterGetColHeader
  \/ AfterGetRowHeader

Spec == Init /\ [][Next]_vars

\* The same, enablePlugin() being called whatever the host's setting.
NextDirect ==
  \/ DirectEnable
  \/ DisablePlugin
  \/ Destroy
  \/ AfterGetColHeader
  \/ AfterGetRowHeader

SpecDirect == Init /\ [][NextDirect]_vars

\* ------------------------------------------- the cleanup traversal alone

HeaderRows == UNION {[1..k -> TitleValues] : k \in 0..MaxCols}
HeadShapes == UNION {[1..n -> HeaderRows] : n \in 0..MaxLevels}

\* The plugin enabled by the setting true, the headers rendered any number of
\* times: tables of any shape, with or without the corner overlay, each column
\* header with any title or none.
InitCleanup ==
  /\ settings = parseSettings(JsBoolean(TRUE))
  /\ enabled = TRUE
  /\ hooks = addHook(addHook(<<>>, "afterGetColHeader"), "afterGetRowHeader")
  /\ destroyed = FALSE
  /\ last = Op("rendered", FALSE)
  /\ headerLevels \in 0..MaxLevels
  /\ topLeftCornerOverlay \in BOOLEAN
  /\ THEAD \in [Surfaces -> HeadShapes]
  /\ ~topLeftCornerOverlay => THEAD["corner"] = <<>>
  /\ TBODY = RowHeaders

NextCleanup == DisablePlugin

SpecCleanup == InitCleanup /\ [][NextCleanup]_vars

\* ---------------------------------------------------------------- claims

Defaults == JsObject("true", "true", "false")
Untitled(cells) == \A TH \in cells : Exists(TH) => Title(TH) = NoTitle

\* The dimension of the header TH is enabled in the cached settings: columns is
\* true for a column header, rows is true for a row header.
DimensionEnabled(TH) ==
  IF TH.section = "THEAD" THEN settings.columns = "true" ELSE settings.rows = "true"

\* C1: after disablePlugin() has returned, no header cell of any table, column
\* header or row header, at any level and place, carries a title.
C1_DisableClearsEveryHeader ==
  (last.op = "disable" /\ ~last.threw) => Untitled(AllCells)

C3_DisableIdempotent ==
  [][(last'.op = "disable" /\ ~enabled) =>
        /\ ~last'.threw
        /\ UNCHANGED <<settings, enabled, hooks, THEAD, TBODY>>]_vars

C5_TitleIsLabel ==
  [][(/\ last'.op = "render"
      /\ settings.type = "object"
      /\ ~Truthy(settings.onlyTrimmed)
      /\ DimensionEnabled(last'.TH)) =>
        TitleIn(THEAD', TBODY', last'.TH) = last'.text]_vars

C5_Witness ==
  /\ last.op = "render" /\ ~last.threw
  /\ ~isColHeader(last.TH)
  /\ Truthy(settings.rows) /\ ~Truthy(settings.onlyTrimmed)
  /\ last.text = "Qty" /\ last.textWidth = 0
  /\ Title(last.TH) = "Qty"

\* C6: a render of a header whose dimension is not enabled changes no title,
\* whatever onlyTrimmed and the label width.
C6_OtherDimensionUntouched ==
  [][(/\ last'.op = "render"
      /\ ~DimensionEnabled(last'.TH)) =>
        UNCHANGED <<THEAD, TBODY>>]_vars

C6_Witness ==
  /\ last.op = "render" /\ ~last.threw
  /\ isColHeader(last.TH)
  /\ Truthy(settings.rows) /\ settings.columns = "false"
  /\ last.textWidth = 120
  /\ Title(last.TH) = NoTitle

\* C7: enablePlugin() caches the default object for a boolean setting and the
\* setting itself, no key added, for any other; cached from {rows: true}, the
\* settings give column headers no title.
C7_Normalization ==
  [][(last'.op = "enable" /\ ~last'.wasEnabled) =>
        \A cfg \in ConfigValues :
          EnablePlugin(cfg) =>
            /\ settings' = IF cfg.type = "boolean" THEN Defaults ELSE cfg
            /\ cfg = JsObject("true", "undefined", "undefined")
                 => settings'.columns # "true"]_vars

C7_Witness ==
  /\ last.op = "enable" /\ ~last.wasEnabled
  /\ last.cfgType = "object"
  /\ settings = JsObject("true", "undefined", "undefined")

\* C8: enablePlugin() on an enabled plugin changes neither the cached settings
\* nor the subscriptions, and the plugin never holds more than one subscription
\* to each of its two hooks.
C8_EnableOnce ==
  [][/\ Len(hooks') <= 2
     /\ Subscriptions("afterGetColHeader")' <= 1
     /\ Subscriptions("afterGetRowHeader")' <= 1
     /\ (last'.op = "enable" /\ last'.wasEnabled) =>
          UNCHANGED <<settings, hooks, enabled>>]_vars

C8_Witness ==
  /\ last.op = "enable" /\ last.wasEnabled
  /\ last.cfgType = "boolean"
  /\ settings.type = "object" /\ settings # Defaults
  /\ Len(hooks) = 2

\* C9: the cleanup traversal raises nothing, whatever the tables hold, and
\* leaves no title on a column header of a configured level.
C9_CleanupNeverFails ==
  last.op = "disable" =>
    /\ ~last.threw
    /\ Untitled({TH \in HeadCells : TH.row <= headerLevels})

\* C10: while a subscription of the plugin is registered the cached settings
\* are present, and the settings are absent exactly when the plugin is not
\* enabled.
C10_SettingsWhileSubscribed ==
  /\ Len(hooks) > 0 => settings.type = "object"
  /\ settings = JsNull <=> ~enabled

====
